---- MODULE Spec2Model ----
(***************************************************************************)
(* Streaming chat client of gh-smart-commit (package ollama) together with *)
(* the consumer loop of the commands that call it (package cmd).           *)
(*                                                                         *)
(* One run of one command is modelled: Ping, then Chat, which starts the   *)
(* producer goroutine (streamChat, executeWithRetry, the deferred closes), *)
(* and the for/select loop of the command that drains respChan and errChan *)
(* while watching ctx.Done().  Every receive, send and close on a channel  *)
(* is one step, so all interleavings of the two goroutines are explored.   *)
(* The server is the environment: the outcome of each HTTP attempt and     *)
(* each line of the response body are chosen nondeterministically.         *)
(***************************************************************************)
EXTENDS Integers, Sequences, FiniteSets, TLC

(* ------------------------------ bounds --------------------------------- *)

\* Largest number of lines the server writes into one response body.
MaxLines == 3

\* Largest number of lines of a text handed to parseSuggestions.
MaxTextLines == 3

\* Largest number of suggestions handed to filterSuggestionsBySeverity.
MaxListLen == 3

\* Number of lines of a body long enough to fill respChan.
MaxLongLines == 12

\* Largest number of ticks the server takes to answer an exchange in full.
MaxTicks == 33

(* ------------------------- program constants --------------------------- *)

\* http.Client{Timeout: 30 * time.Second}, in seconds
ClientTimeout == 30

\* timeout: 5 * time.Minute, in seconds
RequestTimeout == 300

\* Seconds in one tick of the clock the time limits are followed with.
TickSeconds == 10


\* make(chan ChatResponse, 10)
RespChanCap == 10

\* c.executeWithRetry(httpReq, 3)
maxRetries == 3

\* http.StatusOK
StatusOK == 200

(* ----------------------------- value sets ------------------------------ *)

\* The commands that stream a chat response.
Commands == {"lint-suggestions", "smart-commit", "bash", "branch-describe"}

\* Text fragments a unit can carry (Message.Content), as character sequences.
Contents == {<<"a">>, <<"b">>, <<" ">>}

\* Status codes the server answers with.
Statuses == {200, 201, 404, 500}

\* Body text of a non-streaming (error) response.
ErrorBodies == {<<"e">>}

\* A decoded line of the stream: ChatResponse reduced to the fields the
\* clients read.
Units == [content : Contents, done : BOOLEAN]

\* The error value nil.
NoErr == [kind |-> "nil", code |-> 0, text |-> <<>>]

\* err returned by httpClient.Do when no response was obtained.
ConnErr == [kind |-> "conn", code |-> 0, text |-> <<>>]

\* ctx.Err() once ctx is cancelled.
CtxErr == [kind |-> "ctx", code |-> 0, text |-> <<>>]

\* fmt.Errorf("failed to execute request: %w", err)
ExecErr(e) == [kind |-> "exec", code |-> 0, text |-> <<>>]

\* fmt.Errorf("ollama request failed with status %d: %s", code, body)
StatusErr(code, body) == [kind |-> "status", code |-> code, text |-> body]

\* fmt.Errorf("failed to unmarshal response: %w", err)
DecodeErr == [kind |-> "decode", code |-> 0, text |-> <<>>]

\* scanner.Err() after a failed read of the response body.
ReadErr == [kind |-> "read", code |-> 0, text |-> <<>>]

\* No response: the *http.Response nil.
NilResp == [status |-> 0, text |-> <<>>]

(* ------------------------------- state --------------------------------- *)

VARIABLES
    cmd,          \* the command being run
    cpc,          \* position of the command: "start", "chat", "loop", "done"
    result,       \* what the command returned: [kind, err]
    responseBuilder, \* text accumulated by the consumer loop
    received,     \* units the consumer loop took from respChan, in order
    cancelled,    \* ctx.Done() is closed
    respChan,     \* buffered units
    respClosed,   \* respChan is closed
    errChan,      \* buffered error values
    errClosed,    \* errChan is closed
    ppc,          \* position of the producer goroutine
    i,            \* loop index of executeWithRetry
    lastErr,      \* lastErr of executeWithRetry
    resp,         \* response returned by executeWithRetry
    execErr,      \* error returned by executeWithRetry
    chatResp,     \* unit decoded and about to be delivered
    nlines,       \* lines of the body read so far
    wire,         \* kind of every line read: "blank", "bad" or "unit"
    decoded,      \* units decoded from the body, in order
    sent,         \* units the producer put on respChan, in order
    errSent,      \* error values the producer put on errChan, in order
    retErr,       \* what streamChat returned
    bodyEnd,      \* how streamChat ended: "open", "done", "eof", "read",
                  \* "decode", "status", "exec", "ctx"
    panicked,     \* the producer goroutine panicked
    attempts,     \* outcome of every httpClient.Do of the chat request
    sleeps,       \* backoff delays slept, in seconds
    pings,        \* outcome of every httpClient.Do of Ping
    chatCalls,    \* number of calls of Chat
    sentAfterCancel, \* units put on respChan while ctx was already cancelled
    sentAfterErr, \* units put on respChan after a value was put on errChan
    cancelPos,    \* where the command was when ctx was cancelled, or "never"
    response,     \* the text handed to parseSuggestions
    suggestions,  \* what parseSuggestions returned
    filterInput,  \* the suggestions handed to filterSuggestionsBySeverity
    severityFilter, \* the label handed to filterSuggestionsBySeverity
    filtered,     \* what filterSuggestionsBySeverity returned
    pstage,       \* "idle", "input", "parsed", "filtered", "limited", "panic"
    maxSuggestions, \* the value of the flag --max-suggestions
    limited,      \* the suggestions left by the limit, which are displayed
    server,       \* what the server may write into a body: [lines, units]
    timed,        \* the exchange whose time is followed: "none", "ping", "chat"
    elapsed,      \* ticks since httpClient.Do of that exchange began
    serverTicks,  \* ticks the server needs to answer that exchange in full
    outcome       \* "idle", "running", "finished", or the limit that cut the
                  \* exchange: "client" (http.Client.Timeout), "reqCtx"

vars == <<cmd, cpc, result, responseBuilder, received, cancelled, respChan,
          respClosed, errChan, errClosed, ppc, i, lastErr, resp, execErr,
          chatResp, nlines, wire, decoded, sent, errSent, retErr, bodyEnd, panicked,
          attempts, sleeps, pings, chatCalls, sentAfterCancel, sentAfterErr,
          cancelPos, response, suggestions, filterInput, severityFilter,
          filtered, pstage, maxSuggestions, limited, server, timed, elapsed,
          serverTicks, outcome>>

consumerVars == <<cmd, cpc, result, responseBuilder, received>>
producerVars == <<ppc, i, lastErr, resp, execErr, chatResp, nlines, wire, decoded,
                  sent, errSent, retErr, bodyEnd, panicked, attempts, sleeps,
                  sentAfterCancel, sentAfterErr>>
chanVars == <<respChan, respClosed, errChan, errClosed>>
pureVars == <<response, suggestions, filterInput, severityFilter, filtered,
              pstage, maxSuggestions, limited>>

timerVars == <<timed, elapsed, serverTicks, outcome>>

(* ------------------------------ helpers -------------------------------- *)

RECURSIVE Concat(_)
\* strings.Builder.WriteString applied to the contents of a sequence of units
Concat(us) == IF us = <<>> THEN <<>> ELSE us[1].content \o Concat(Tail(us))

IsSpace(ch) == ch \in {" ", "\t", "\n", "\r"}

RECURSIVE TrimLeft(_)
TrimLeft(s) == IF s # <<>> /\ IsSpace(s[1]) THEN TrimLeft(Tail(s)) ELSE s

RECURSIVE TrimRight(_)
TrimRight(s) ==
    IF s # <<>> /\ IsSpace(s[Len(s)]) THEN TrimRight(SubSeq(s, 1, Len(s) - 1))
    ELSE s

\* strings.TrimSpace
TrimSpace(s) == TrimRight(TrimLeft(s))

\* 1 << uint(k)
RECURSIVE Shl1(_)
Shl1(k) == IF k = 0 THEN 1 ELSE 2 * Shl1(k - 1)

\* The process has crashed (an unrecovered panic ends every goroutine).
Crashed == ppc = "crashed"

Running == cpc \in {"start", "chat", "loop"} /\ ~Crashed

(* ------------------------------- Init ---------------------------------- *)

\* A server that may write any lines, up to MaxLines of them.
AnyBody == [lines |-> MaxLines, units |-> Units]

\* No exchange is being timed.
TimersIdle ==
    /\ timed = "none"
    /\ elapsed = 0
    /\ serverTicks = 0
    /\ outcome = "idle"

\* The state of a command that has just been started.
StreamStart ==
    /\ cmd \in Commands
    /\ cpc = "start"
    /\ result = [kind |-> "running", err |-> NoErr]
    /\ responseBuilder = <<>>
    /\ received = <<>>
    /\ cancelled = FALSE
    /\ respChan = <<>>
    /\ respClosed = FALSE
    /\ errChan = <<>>
    /\ errClosed = FALSE
    /\ ppc = "idle"
    /\ i = 0
    /\ lastErr = NoErr
    /\ resp = NilResp
    /\ execErr = NoErr
    /\ chatResp = [content |-> <<>>, done |-> FALSE]
    /\ nlines = 0
    /\ wire = <<>>
    /\ decoded = <<>>
    /\ sent = <<>>
    /\ errSent = <<>>
    /\ retErr = NoErr
    /\ bodyEnd = "open"
    /\ panicked = FALSE
    /\ attempts = <<>>
    /\ sleeps = <<>>
    /\ pings = <<>>
    /\ chatCalls = 0
    /\ sentAfterCancel = 0
    /\ sentAfterErr = 0
    /\ cancelPos = "never"

StreamInit == StreamStart /\ server = AnyBody

\* Flags().Int("max-suggestions", 10, ...)
DefaultMaxSuggestions == 10

\* Nothing has been handed to the parser or to the filter.
PureIdle ==
    /\ response = <<>>
    /\ suggestions = <<>>
    /\ filterInput = <<>>
    /\ severityFilter = <<>>
    /\ filtered = <<>>
    /\ pstage = "idle"
    /\ maxSuggestions = DefaultMaxSuggestions
    /\ limited = <<>>

Init == StreamInit /\ PureIdle /\ TimersIdle

(* --------------------- the command: before the stream ------------------ *)

\* What the code after the label StreamComplete returns.
\* strings.TrimSpace(responseBuilder.String()) == "" is the empty-output failure.
StreamComplete(streamErr, text) ==
    IF streamErr # NoErr THEN [kind |-> "streamErr", err |-> streamErr]
    ELSE IF TrimSpace(text) = <<>> THEN [kind |-> "empty", err |-> NoErr]
    ELSE [kind |-> "success", err |-> NoErr]

\* All the returns of a command that come before the client is created:
\* not a Git repository, no changes, prompt build failure, and the cache hit
\* of branch-describe.
ReturnBeforePing ==
    /\ cpc = "start"
    /\ pings = <<>>
    /\ ~Crashed
    /\ cpc' = "done"
    /\ result' = [kind |-> "early", err |-> NoErr]
    /\ UNCHANGED <<cmd, responseBuilder, received, cancelled, cancelPos>>
    /\ UNCHANGED chanVars
    /\ UNCHANGED producerVars
    /\ UNCHANGED <<pings, chatCalls, pureVars, timerVars, server>>

\* As PingResult, but every 2xx status counts as success.
PingResultAny2xx(out) ==
    IF out.err THEN [kind |-> "ping", code |-> 0, text |-> <<>>]
    ELSE IF out.status < 200 \/ out.status >= 300
         THEN [kind |-> "ping", code |-> out.status, text |-> <<>>]
         ELSE NoErr

\* The result of Client.Ping for one outcome of httpClient.Do.
PingResult(out) ==
    IF out.err THEN [kind |-> "ping", code |-> 0, text |-> <<>>]
    ELSE IF out.status # StatusOK
         THEN [kind |-> "ping", code |-> out.status, text |-> <<>>]
         ELSE NoErr

\* What one httpClient.Do can come back with: an error, or a response.
DoOutcomes ==
    {[err |-> TRUE, status |-> 0, text |-> <<>>]}
    \cup {[err |-> FALSE, status |-> st, text |-> <<>>] : st \in {StatusOK}}
    \cup {[err |-> FALSE, status |-> st, text |-> b] :
             st \in Statuses \ {StatusOK}, b \in ErrorBodies}

\* A Do under a context that is already cancelled fails.
DoOutcomesUnder(isCancelled) ==
    IF isCancelled THEN {out \in DoOutcomes : out.err} ELSE DoOutcomes

\* if err := client.Ping(ctx); err != nil { return ... }
Ping ==
    /\ cpc = "start"
    /\ ~Crashed
    /\ \E out \in DoOutcomesUnder(cancelled) :
          /\ pings' = Append(pings, out)
          /\ IF PingResult(out) # NoErr
             THEN /\ cpc' = "done"
                  /\ result' = [kind |-> "pingErr", err |-> PingResult(out)]
             ELSE /\ cpc' = "chat"
                  /\ UNCHANGED result
    /\ UNCHANGED <<cmd, responseBuilder, received, cancelled, cancelPos>>
    /\ UNCHANGED chanVars
    /\ UNCHANGED producerVars
    /\ UNCHANGED <<chatCalls, pureVars, timerVars, server>>

\* As CallsChat, but the result of Ping is not looked at.
CallsChatIgnoringPing ==
    cpc = "chat" \/ (cpc = "done" /\ result.kind = "pingErr")

\* The command calls Chat when, and only when, it got here.
CallsChat == cpc = "chat"

\* respChan, errChan := client.Chat(ctx, chatReq): makes both channels and
\* starts the producer goroutine.
Chat ==
    /\ CallsChat
    /\ ~Crashed
    /\ ppc = "idle"
    /\ cpc' = "loop"
    /\ ppc' = "attempt"
    /\ chatCalls' = chatCalls + 1
    /\ respChan' = <<>>
    /\ errChan' = <<>>
    /\ respClosed' = FALSE
    /\ errClosed' = FALSE
    /\ UNCHANGED <<cmd, result, responseBuilder, received, cancelled,
                   cancelPos>>
    /\ UNCHANGED <<i, lastErr, resp, execErr, chatResp, nlines, wire, decoded, sent,
                   errSent, retErr, bodyEnd, panicked, attempts, sleeps,
                   sentAfterCancel, sentAfterErr, pings, pureVars, timerVars, server>>

(* ----------------------- the producer goroutine ------------------------ *)

\* The goroutine of Chat after streamChat has returned e:
\* if err != nil { errChan <- err }; the deferred closes follow as own steps.
\* errChan has room for one value and gets at most one, so the send never blocks.
StreamChatReturns(e, how) ==
    /\ retErr' = e
    /\ bodyEnd' = how
    /\ errChan' = IF e # NoErr THEN Append(errChan, e) ELSE errChan
    /\ errSent' = IF e # NoErr THEN Append(errSent, e) ELSE errSent
    /\ ppc' = "closeErr"

\* As backoff, but the delay does not grow.
backoffFlat(n) == 1

\* backoff := time.Duration(1<<uint(i)) * time.Second, in seconds
backoff(n) == Shl1(n)

\* As Accepted, but only a 2xx response is accepted.
AcceptedOnly2xx(out) == ~out.err /\ out.status < 300

\* executeWithRetry accepts a response: err == nil && resp.StatusCode < 500
Accepted(out) == ~out.err /\ out.status < 500

\* One iteration of the loop of executeWithRetry: httpClient.Do, then return
\* the response, or record lastErr and break or sleep the backoff.
executeWithRetry ==
    /\ ppc = "attempt"
    /\ i < maxRetries
    /\ \E out \in DoOutcomesUnder(cancelled) :
          /\ attempts' = Append(attempts, out)
          /\ IF Accepted(out)
             THEN /\ resp' = [status |-> out.status, text |-> out.text]
                  /\ execErr' = NoErr
                  /\ ppc' = "execRet"
                  /\ UNCHANGED <<i, lastErr, sleeps>>
             ELSE /\ lastErr' = IF out.err THEN ConnErr ELSE NoErr
                  /\ IF i = maxRetries - 1
                     THEN /\ resp' = NilResp
                          /\ execErr' = lastErr'
                          /\ ppc' = "execRet"
                          /\ UNCHANGED <<i, sleeps>>
                     ELSE /\ sleeps' = Append(sleeps, backoff(i))
                          /\ i' = i + 1
                          /\ UNCHANGED <<resp, execErr, ppc>>
    /\ UNCHANGED <<chatResp, nlines, wire, decoded, sent, errSent, retErr,
                   bodyEnd,
                   panicked, sentAfterCancel, sentAfterErr>>
    /\ UNCHANGED chanVars
    /\ UNCHANGED consumerVars
    /\ UNCHANGED <<cancelled, cancelPos, pings, chatCalls, pureVars, timerVars, server>>

\* streamChat between executeWithRetry and the scanner loop: the error check,
\* defer resp.Body.Close() (a nil resp panics here), the status check.
streamChatStatus ==
    /\ ppc = "execRet"
    /\ IF execErr # NoErr
       THEN /\ StreamChatReturns(ExecErr(execErr), "exec")
            /\ UNCHANGED panicked
       ELSE IF resp = NilResp
       THEN /\ panicked' = TRUE
            /\ ppc' = "closeErr"
            /\ UNCHANGED <<retErr, bodyEnd, errChan, errSent>>
       ELSE IF resp.status # StatusOK
       THEN /\ StreamChatReturns(StatusErr(resp.status, resp.text), "status")
            /\ UNCHANGED panicked
       ELSE /\ ppc' = "scan"
            /\ UNCHANGED <<retErr, bodyEnd, errChan, errSent, panicked>>
    /\ UNCHANGED <<i, lastErr, resp, execErr, chatResp, nlines, wire, decoded, sent,
                   attempts, sleeps, sentAfterCancel, sentAfterErr>>
    /\ UNCHANGED <<respChan, respClosed, errClosed>>
    /\ UNCHANGED consumerVars
    /\ UNCHANGED <<cancelled, cancelPos, pings, chatCalls, pureVars, timerVars, server>>

\* scanner.Scan() returns a blank line: continue.
scanBlank ==
    /\ ppc = "scan"
    /\ nlines < server.lines
    /\ nlines' = nlines + 1
    /\ wire' = Append(wire, "blank")
    /\ UNCHANGED <<ppc, i, lastErr, resp, execErr, chatResp, decoded, sent,
                   errSent, retErr, bodyEnd, panicked, attempts, sleeps,
                   sentAfterCancel, sentAfterErr>>
    /\ UNCHANGED chanVars
    /\ UNCHANGED consumerVars
    /\ UNCHANGED <<cancelled, cancelPos, pings, chatCalls, pureVars, timerVars, server>>

\* As scanMalformed, but the line is skipped like a blank one.
scanMalformedSkipped ==
    /\ ppc = "scan"
    /\ nlines < server.lines
    /\ nlines' = nlines + 1
    /\ wire' = Append(wire, "bad")
    /\ UNCHANGED <<ppc, i, lastErr, resp, execErr, chatResp, decoded, sent,
                   errSent, retErr, bodyEnd, panicked, attempts, sleeps,
                   sentAfterCancel, sentAfterErr>>
    /\ UNCHANGED chanVars
    /\ UNCHANGED consumerVars
    /\ UNCHANGED <<cancelled, cancelPos, pings, chatCalls, pureVars, timerVars, server>>

\* scanner.Scan() returns a line json.Unmarshal rejects: return the decode error.
scanMalformed ==
    /\ ppc = "scan"
    /\ nlines < server.lines
    /\ nlines' = nlines + 1
    /\ wire' = Append(wire, "bad")
    /\ StreamChatReturns(DecodeErr, "decode")
    /\ UNCHANGED <<i, lastErr, resp, execErr, chatResp, decoded, sent,
                   panicked, attempts, sleeps, sentAfterCancel, sentAfterErr>>
    /\ UNCHANGED <<respChan, respClosed, errClosed>>
    /\ UNCHANGED consumerVars
    /\ UNCHANGED <<cancelled, cancelPos, pings, chatCalls, pureVars, timerVars, server>>

\* scanner.Scan() returns a line that decodes into a unit: go to the select.
scanUnit ==
    /\ ppc = "scan"
    /\ nlines < server.lines
    /\ \E u \in server.units :
          /\ chatResp' = u
          /\ decoded' = Append(decoded, u)
    /\ nlines' = nlines + 1
    /\ wire' = Append(wire, "unit")
    /\ ppc' = "select"
    /\ UNCHANGED <<i, lastErr, resp, execErr, sent, errSent, retErr, bodyEnd,
                   panicked, attempts, sleeps, sentAfterCancel, sentAfterErr>>
    /\ UNCHANGED chanVars
    /\ UNCHANGED consumerVars
    /\ UNCHANGED <<cancelled, cancelPos, pings, chatCalls, pureVars, timerVars, server>>

\* scanner.Scan() returns false at a clean end of the body: scanner.Err() is nil.
scanEOF ==
    /\ ppc = "scan"
    /\ StreamChatReturns(NoErr, "eof")
    /\ UNCHANGED <<i, lastErr, resp, execErr, chatResp, nlines, wire, decoded, sent,
                   panicked, attempts, sleeps, sentAfterCancel, sentAfterErr>>
    /\ UNCHANGED <<respChan, respClosed, errClosed>>
    /\ UNCHANGED consumerVars
    /\ UNCHANGED <<cancelled, cancelPos, pings, chatCalls, pureVars, timerVars, server>>

\* scanner.Scan() returns false because a read failed (connection dropped,
\* timeout): scanner.Err() is that error.
scanReadError ==
    /\ ppc = "scan"
    /\ StreamChatReturns(ReadErr, "read")
    /\ UNCHANGED <<i, lastErr, resp, execErr, chatResp, nlines, wire, decoded, sent,
                   panicked, attempts, sleeps, sentAfterCancel, sentAfterErr>>
    /\ UNCHANGED <<respChan, respClosed, errClosed>>
    /\ UNCHANGED consumerVars
    /\ UNCHANGED <<cancelled, cancelPos, pings, chatCalls, pureVars, timerVars, server>>

\* As CanSend, but a full buffer does not hold the send back.
CanSendWhenFull == TRUE

\* The send case of the select is ready.
CanSend == Len(respChan) < RespChanCap

\* select case respChan <- chatResp, then: if chatResp.Done { break } and
\* return scanner.Err(), which is nil after a successful Scan.
streamChatSend ==
    /\ ppc = "select"
    /\ CanSend
    /\ respChan' = Append(respChan, chatResp)
    /\ sent' = Append(sent, chatResp)
    /\ sentAfterCancel' = IF cancelled THEN sentAfterCancel + 1
                          ELSE sentAfterCancel
    /\ sentAfterErr' = IF errSent # <<>> THEN sentAfterErr + 1
                       ELSE sentAfterErr
    /\ IF chatResp.done
       THEN StreamChatReturns(NoErr, "done")
       ELSE /\ ppc' = "scan"
            /\ UNCHANGED <<retErr, bodyEnd, errChan, errSent>>
    /\ UNCHANGED <<i, lastErr, resp, execErr, chatResp, nlines, wire, decoded,
                   panicked, attempts, sleeps>>
    /\ UNCHANGED <<respClosed, errClosed>>
    /\ UNCHANGED consumerVars
    /\ UNCHANGED <<cancelled, cancelPos, pings, chatCalls, pureVars, timerVars, server>>

\* defer close(errChan): the deferred call registered last runs first.
closeErrChan ==
    /\ ppc = "closeErr"
    /\ errClosed' = TRUE
    /\ ppc' = "closeResp"
    /\ UNCHANGED <<i, lastErr, resp, execErr, chatResp, nlines, wire, decoded, sent,
                   errSent, retErr, bodyEnd, panicked, attempts, sleeps,
                   sentAfterCancel, sentAfterErr>>
    /\ UNCHANGED <<respChan, respClosed, errChan>>
    /\ UNCHANGED consumerVars
    /\ UNCHANGED <<cancelled, cancelPos, pings, chatCalls, pureVars, timerVars, server>>

\* defer close(respChan); the goroutine ends, or the panic ends the process.
closeRespChan ==
    /\ ppc = "closeResp"
    /\ respClosed' = TRUE
    /\ ppc' = IF panicked THEN "crashed" ELSE "exited"
    /\ UNCHANGED <<i, lastErr, resp, execErr, chatResp, nlines, wire, decoded, sent,
                   errSent, retErr, bodyEnd, panicked, attempts, sleeps,
                   sentAfterCancel, sentAfterErr>>
    /\ UNCHANGED <<respChan, errChan, errClosed>>
    /\ UNCHANGED consumerVars
    /\ UNCHANGED <<cancelled, cancelPos, pings, chatCalls, pureVars, timerVars, server>>

(* ----------------------- the consumer for/select loop ------------------ *)

\* case resp, ok := <-respChan with ok: responseBuilder.WriteString(...)
recvUnit ==
    /\ cpc = "loop"
    /\ ~Crashed
    /\ respChan # <<>>
    /\ responseBuilder' = responseBuilder \o Head(respChan).content
    /\ received' = Append(received, Head(respChan))
    /\ respChan' = Tail(respChan)
    /\ UNCHANGED <<cmd, cpc, result, cancelled, cancelPos>>
    /\ UNCHANGED <<respClosed, errChan, errClosed>>
    /\ UNCHANGED producerVars
    /\ UNCHANGED <<pings, chatCalls, pureVars, timerVars, server>>

\* case resp, ok := <-respChan with !ok: goto StreamComplete (streamErr is nil)
recvRespClosed ==
    /\ cpc = "loop"
    /\ ~Crashed
    /\ respChan = <<>>
    /\ respClosed
    /\ cpc' = "done"
    /\ result' = StreamComplete(NoErr, responseBuilder)
    /\ UNCHANGED <<cmd, responseBuilder, received, cancelled, cancelPos>>
    /\ UNCHANGED chanVars
    /\ UNCHANGED producerVars
    /\ UNCHANGED <<pings, chatCalls, pureVars, timerVars, server>>

\* What a receive from errChan yields: the buffered value, or nil once the
\* channel is closed and empty.
ErrChanReady == errChan # <<>> \/ errClosed

ErrChanValue == IF errChan # <<>> THEN Head(errChan) ELSE NoErr

\* case err := <-errChan: streamErr = err; goto StreamComplete
recvErr ==
    /\ cpc = "loop"
    /\ ~Crashed
    /\ ErrChanReady
    /\ cpc' = "done"
    /\ result' = StreamComplete(ErrChanValue, responseBuilder)
    /\ errChan' = IF errChan # <<>> THEN Tail(errChan) ELSE errChan
    /\ UNCHANGED <<cmd, responseBuilder, received, cancelled, cancelPos>>
    /\ UNCHANGED <<respChan, respClosed, errClosed>>
    /\ UNCHANGED producerVars
    /\ UNCHANGED <<pings, chatCalls, pureVars, timerVars, server>>

(* ---------------------------- cancellation ----------------------------- *)

\* The context handed to the command and to Chat is cancelled by its owner.
Cancel ==
    /\ Running
    /\ ~cancelled
    /\ cancelled' = TRUE
    /\ cancelPos' = cpc
    /\ UNCHANGED consumerVars
    /\ UNCHANGED chanVars
    /\ UNCHANGED producerVars
    /\ UNCHANGED <<pings, chatCalls, pureVars, timerVars, server>>

\* As streamChatCtxDone, but the send is not in a select with ctx.Done().
streamChatSendOnly == FALSE /\ UNCHANGED vars

\* select case <-ctx.Done() of streamChat: return ctx.Err()
streamChatCtxDone ==
    /\ ppc = "select"
    /\ cancelled
    /\ StreamChatReturns(CtxErr, "ctx")
    /\ UNCHANGED <<i, lastErr, resp, execErr, chatResp, nlines, wire, decoded, sent,
                   panicked, attempts, sleeps, sentAfterCancel, sentAfterErr>>
    /\ UNCHANGED <<respChan, respClosed, errClosed>>
    /\ UNCHANGED consumerVars
    /\ UNCHANGED <<cancelled, cancelPos, pings, chatCalls, pureVars, timerVars, server>>

\* A read of the body fails because the request context is cancelled:
\* scanner.Err() is the context's error.
scanCtxError ==
    /\ ppc = "scan"
    /\ cancelled
    /\ StreamChatReturns(CtxErr, "ctx")
    /\ UNCHANGED <<i, lastErr, resp, execErr, chatResp, nlines, wire, decoded, sent,
                   panicked, attempts, sleeps, sentAfterCancel, sentAfterErr>>
    /\ UNCHANGED <<respChan, respClosed, errClosed>>
    /\ UNCHANGED consumerVars
    /\ UNCHANGED <<cancelled, cancelPos, pings, chatCalls, pureVars, timerVars, server>>

\* case <-ctx.Done() of the consumer loop: return ctx.Err()
recvCtxDone ==
    /\ cpc = "loop"
    /\ ~Crashed
    /\ cancelled
    /\ cpc' = "done"
    /\ result' = [kind |-> "ctx", err |-> CtxErr]
    /\ UNCHANGED <<cmd, responseBuilder, received, cancelled, cancelPos>>
    /\ UNCHANGED chanVars
    /\ UNCHANGED producerVars
    /\ UNCHANGED <<pings, chatCalls, pureVars, timerVars, server>>

(* --------------------------- specifications ---------------------------- *)

\* The commands as the repository has them: their context is
\* context.Background(), which is never cancelled.
Next ==
    \/ ReturnBeforePing
    \/ Ping
    \/ Chat
    \/ executeWithRetry
    \/ streamChatStatus
    \/ scanBlank
    \/ scanMalformed
    \/ scanUnit
    \/ scanEOF
    \/ scanReadError
    \/ streamChatSend
    \/ closeErrChan
    \/ closeRespChan
    \/ recvUnit
    \/ recvRespClosed
    \/ recvErr

Spec == Init /\ [][Next]_vars

\* Chat and the same consumer loop under a context its owner can cancel.
NextCtx ==
    \/ Next
    \/ Cancel
    \/ streamChatCtxDone
    \/ scanCtxError
    \/ recvCtxDone

SpecCtx == Init /\ [][NextCtx]_vars

(* ------------------------ text, as Go strings -------------------------- *)

\* A text is a sequence of one-character strings.
LowerCase == <<"a", "b", "c", "d", "e", "f", "g", "h", "i", "j", "k", "l", "m",
               "n", "o", "p", "q", "r", "s", "t", "u", "v", "w", "x", "y", "z">>
UpperCase == <<"A", "B", "C", "D", "E", "F", "G", "H", "I", "J", "K", "L", "M",
               "N", "O", "P", "Q", "R", "S", "T", "U", "V", "W", "X", "Y", "Z">>

UpperOf(ch) ==
    IF \E n \in DOMAIN LowerCase : LowerCase[n] = ch
    THEN UpperCase[CHOOSE n \in DOMAIN LowerCase : LowerCase[n] = ch]
    ELSE ch

\* strings.ToUpper
ToUpper(s) == [n \in 1..Len(s) |-> UpperOf(s[n])]

\* strings.HasPrefix
HasPrefix(s, prefix) ==
    Len(prefix) <= Len(s) /\ SubSeq(s, 1, Len(prefix)) = prefix

\* strings.Contains
Contains(s, substr) ==
    \E k \in 1..(Len(s) + 1) : HasPrefix(SubSeq(s, k, Len(s)), substr)

\* strings.Split(s, "\n")
RECURSIVE Split(_)
Split(s) ==
    IF \E n \in 1..Len(s) : s[n] = "\n"
    THEN LET k == CHOOSE n \in 1..Len(s) :
                      s[n] = "\n" /\ \A m \in 1..(n - 1) : s[m] # "\n"
         IN  <<SubSeq(s, 1, k - 1)>> \o Split(SubSeq(s, k + 1, Len(s)))
    ELSE <<s>>

\* The regular-expression classes \d and \s.
IsDigit(ch) == ch \in {"0", "1", "2", "3", "4", "5", "6", "7", "8", "9"}
IsRegexSpace(ch) == ch \in {" ", "\t", "\n", "\f", "\r"}

\* Length of the longest prefix of s whose characters all satisfy the class.
RECURSIVE DigitRun(_)
DigitRun(s) == IF s # <<>> /\ IsDigit(s[1]) THEN 1 + DigitRun(Tail(s)) ELSE 0

RECURSIVE SpaceRun(_)
SpaceRun(s) == IF s # <<>> /\ IsRegexSpace(s[1]) THEN 1 + SpaceRun(Tail(s)) ELSE 0

\* s without its first n characters.
Drop(s, n) == SubSeq(s, n + 1, Len(s))

DigitValue(ch) ==
    CHOOSE d \in 0..9 : <<"0", "1", "2", "3", "4", "5", "6", "7", "8", "9">>[d + 1] = ch

\* strconv.Atoi on a run of digits (the runs used here are within int range).
RECURSIVE Atoi(_)
Atoi(s) ==
    IF s = <<>> THEN 0
    ELSE 10 * Atoi(SubSeq(s, 1, Len(s) - 1)) + DigitValue(s[Len(s)])

(* --------------------------- parseSuggestions -------------------------- *)

Suggestion(number, severity, title, description) ==
    [Severity |-> severity, Title |-> title, Description |-> description,
     Number |-> number]

HIGH == <<"H", "I", "G", "H">>
MEDIUM == <<"M", "E", "D", "I", "U", "M">>
LOW == <<"L", "O", "W">>

Bracketed(label) == <<"[">> \o label \o <<"]">>

\* FindStringSubmatch of ^(\d+)\.\s*\[([^\]]+)\]\s*(.+) on a line: <<>> for nil,
\* else one record with the three groups. \d+ and the first \s* can only take
\* their longest run, [^\]]+ runs to the first "]", and the last \s* gives one
\* character back to (.+) when only white space follows the label.
MatchPrimary(line) ==
    LET d == DigitRun(line)
        afterDot == Drop(line, d + 1)
        open == Drop(afterDot, SpaceRun(afterDot))
        inside == Drop(open, 1)
        close == IF \E n \in 1..Len(inside) : inside[n] = "]"
                 THEN CHOOSE n \in 1..Len(inside) :
                          inside[n] = "]" /\ \A m \in 1..(n - 1) : inside[m] # "]"
                 ELSE 0
        rest == Drop(inside, close)
        tail == Drop(rest, SpaceRun(rest))
    IN  IF /\ d >= 1
           /\ Len(line) > d
           /\ line[d + 1] = "."
           /\ open # <<>>
           /\ open[1] = "["
           /\ close >= 2
           /\ rest # <<>>
        THEN <<[number |-> SubSeq(line, 1, d),
                label |-> SubSeq(inside, 1, close - 1),
                title |-> IF tail # <<>> THEN tail ELSE <<rest[Len(rest)]>>]>>
        ELSE <<>>

\* As trimmedLine, but the line is taken as it is.
untrimmedLine(raw) == raw

\* line = strings.TrimSpace(line), in both loops.
trimmedLine(raw) == TrimSpace(raw)

\* As primarySeverity, but the label is only upper-cased.
primarySeverityUntrimmed(label) == ToUpper(label)

\* The severity of a structured line.
primarySeverity(label) == TrimSpace(ToUpper(label))

\* The first loop: cur is <<>> for a nil currentSuggestion, else <<s>>.
RECURSIVE ScanPrimary(_, _, _)
ScanPrimary(lines, cur, out) ==
    IF lines = <<>> THEN out \o cur
    ELSE LET line == trimmedLine(lines[1])
             matches == MatchPrimary(line)
         IN  IF line = <<>> THEN ScanPrimary(Tail(lines), cur, out)
             ELSE IF matches # <<>>
             THEN ScanPrimary(Tail(lines),
                      <<Suggestion(Atoi(matches[1].number),
                                   primarySeverity(matches[1].label),
                                   TrimSpace(matches[1].title), <<>>)>>,
                      out \o cur)
             ELSE IF cur # <<>>
             THEN ScanPrimary(Tail(lines),
                      <<[cur[1] EXCEPT !.Description =
                            IF @ = <<>> THEN line ELSE @ \o <<" ">> \o line]>>,
                      out)
             ELSE ScanPrimary(Tail(lines), cur, out)

\* As fallbackSeverity, but [LOW] is looked for first.
fallbackSeverityLowFirst(line) ==
    IF Contains(ToUpper(line), Bracketed(LOW)) THEN LOW
    ELSE IF Contains(ToUpper(line), Bracketed(HIGH)) THEN HIGH
    ELSE MEDIUM

\* The severity of a line in the fallback loop.
fallbackSeverity(line) ==
    IF Contains(ToUpper(line), Bracketed(HIGH)) THEN HIGH
    ELSE IF Contains(ToUpper(line), Bracketed(LOW)) THEN LOW
    ELSE MEDIUM

\* ReplaceAllString of ^\d+\.\s* by "".
StripOrdinal(line) ==
    LET d == DigitRun(line)
    IN  IF d >= 1 /\ Len(line) > d /\ line[d + 1] = "."
        THEN Drop(Drop(line, d + 1), SpaceRun(Drop(line, d + 1)))
        ELSE line

\* ReplaceAllString of \[(?:HIGH|MEDIUM|LOW)\]\s* by "": the matches are taken
\* left to right and do not overlap; the letters must be upper case.
RECURSIVE StripTokens(_)
StripTokens(s) ==
    IF s = <<>> THEN <<>>
    ELSE IF \E sev \in {HIGH, MEDIUM, LOW} : HasPrefix(s, Bracketed(sev))
    THEN LET sev == CHOOSE t \in {HIGH, MEDIUM, LOW} : HasPrefix(s, Bracketed(t))
             after == Drop(s, Len(Bracketed(sev)))
         IN  StripTokens(Drop(after, SpaceRun(after)))
    ELSE <<s[1]>> \o StripTokens(Tail(s))

\* The title the fallback loop gives a line.
fallbackTitle(line) == StripTokens(StripOrdinal(line))

\* The fallback loop.
RECURSIVE ScanFallback(_, _)
ScanFallback(lines, number) ==
    IF lines = <<>> THEN <<>>
    ELSE LET line == trimmedLine(lines[1])
         IN  IF line = <<>> THEN ScanFallback(Tail(lines), number)
             ELSE IF fallbackTitle(line) # <<>>
             THEN <<Suggestion(number, fallbackSeverity(line),
                               fallbackTitle(line), <<>>)>>
                      \o ScanFallback(Tail(lines), number + 1)
             ELSE ScanFallback(Tail(lines), number)

\* The lines the texts handed to parseSuggestions are made of, and the texts.
SampleLines ==
    {<<"1", ".", " ", "[", "H", "I", "G", "H", "]", " ", "A", "b">>,
     <<"2", ".", "[", " ", "l", "o", "w", " ", "]", "c">>,
     <<"3", ".", " ", "[", " ", "]", " ", "t">>,
     <<" ", "m", "o", " ", "r", "e", " ">>,
     <<"[", "L", "o", "w", "]", " ", "C">>,
     <<"[", "L", "O", "W", "]", "[", "h", "i", "g", "h", "]", "x">>,
     <<"7", ".", " ", "[", "M", "E", "D", "I", "U", "M", "]">>,
     <<>>,
     <<" ">>,
     <<"[", "M", "E", "D", "I", "U", "M", "]", " ", "m">>,
     <<"0", ".", "[", "x", "]", "y">>}

RECURSIVE JoinLines(_)
JoinLines(ls) ==
    IF Len(ls) = 1 THEN ls[1] ELSE ls[1] \o <<"\n">> \o JoinLines(Tail(ls))

Texts ==
    UNION {{JoinLines(ls) : ls \in [1..n -> SampleLines]} : n \in 1..MaxTextLines}

\* As parseSuggestions, but without the fallback loop.
parseSuggestionsPrimaryOnly(text) == ScanPrimary(Split(text), <<>>, <<>>)

\* parseSuggestions: the first loop, and the fallback loop when that gave
\* nothing.
parseSuggestions(text) ==
    LET primary == ScanPrimary(Split(text), <<>>, <<>>)
    IN  IF Len(primary) = 0 THEN ScanFallback(Split(text), 1) ELSE primary

(* --------------------- filterSuggestionsBySeverity --------------------- *)

\* The label with which nothing is filtered out.
All == <<"a", "l", "l">>

\* As severityMatches, but nothing matches.
severityMatchesNothing(suggestion, targetSeverity) == FALSE

\* if suggestion.Severity == targetSeverity
severityMatches(suggestion, targetSeverity) ==
    suggestion.Severity = targetSeverity

\* As filterSuggestionsBySeverity, but the severities are not compared.
filterSuggestionsBySeverityKeepAll(list, label) == list

\* filterSuggestionsBySeverity
filterSuggestionsBySeverity(list, label) ==
    IF label = All THEN list
    ELSE LET targetSeverity == ToUpper(label)
             Keep(suggestion) == severityMatches(suggestion, targetSeverity)
         IN  SelectSeq(list, Keep)

\* The suggestions and labels handed to filterSuggestionsBySeverity.
SampleSuggestions ==
    {Suggestion(1, HIGH, <<"a">>, <<>>),
     Suggestion(2, HIGH, <<"b">>, <<"d">>),
     Suggestion(3, LOW, <<"c">>, <<>>),
     Suggestion(4, <<"h", "i", "g", "h">>, <<"d">>, <<>>),
     Suggestion(5, <<"A", "L", "L">>, <<"e">>, <<>>)}

\* The values of --max-suggestions tried.
MaxCounts == (0 - 1)..(MaxListLen + 1)

SuggestionLists ==
    UNION {[1..n -> SampleSuggestions] : n \in 0..MaxListLen}

Labels ==
    {All, <<"A", "L", "L">>, <<"A", "l", "l">>, <<"h", "i", "g", "h">>,
     HIGH, <<"L", "o", "w">>, <<"m", "e", "d", "i", "u", "m">>}

(* ------------------- the two functions on their own -------------------- *)

\* The stream part at rest while a function is applied to drawn inputs.
StreamAtRest == StreamInit /\ cmd = "lint-suggestions"

InitParse ==
    /\ StreamAtRest
    /\ TimersIdle
    /\ response \in Texts
    /\ suggestions = <<>>
    /\ filterInput = <<>>
    /\ severityFilter = <<>>
    /\ filtered = <<>>
    /\ pstage = "input"
    /\ maxSuggestions = DefaultMaxSuggestions
    /\ limited = <<>>

\* suggestions := parseSuggestions(response)
ParseResponse ==
    /\ pstage = "input"
    /\ suggestions' = parseSuggestions(response)
    /\ pstage' = "parsed"
    /\ UNCHANGED <<response, filterInput, severityFilter, filtered,
                   maxSuggestions, limited>>
    /\ UNCHANGED <<consumerVars, producerVars, chanVars>>
    /\ UNCHANGED <<cancelled, cancelPos, pings, chatCalls, timerVars, server>>

NextParse == ParseResponse

SpecParse == InitParse /\ [][NextParse]_vars

InitFilter ==
    /\ StreamAtRest
    /\ TimersIdle
    /\ response = <<>>
    /\ suggestions = <<>>
    /\ filterInput \in SuggestionLists
    /\ severityFilter \in Labels
    /\ filtered = <<>>
    /\ pstage = "input"
    /\ maxSuggestions \in MaxCounts
    /\ limited = <<>>

\* filteredSuggestions := filterSuggestionsBySeverity(suggestions, severityFilter)
FilterSuggestions ==
    /\ pstage = "input"
    /\ filtered' = filterSuggestionsBySeverity(filterInput, severityFilter)
    /\ pstage' = "filtered"
    /\ UNCHANGED <<response, suggestions, filterInput, severityFilter,
                   maxSuggestions, limited>>
    /\ UNCHANGED <<consumerVars, producerVars, chanVars>>
    /\ UNCHANGED <<cancelled, cancelPos, pings, chatCalls, timerVars, server>>

\* if len(filteredSuggestions) > maxSuggestions {
\*     filteredSuggestions = filteredSuggestions[:maxSuggestions] }
\* A negative upper index of a slice expression is a run-time panic.
LimitSuggestions ==
    /\ pstage = "filtered"
    /\ IF Len(filtered) > maxSuggestions
       THEN IF maxSuggestions < 0
            THEN pstage' = "panic" /\ UNCHANGED limited
            ELSE /\ limited' = SubSeq(filtered, 1, maxSuggestions)
                 /\ pstage' = "limited"
       ELSE limited' = filtered /\ pstage' = "limited"
    /\ UNCHANGED <<response, suggestions, filterInput, severityFilter,
                   filtered, maxSuggestions>>
    /\ UNCHANGED <<consumerVars, producerVars, chanVars>>
    /\ UNCHANGED <<cancelled, cancelPos, pings, chatCalls, timerVars, server>>

NextFilter == FilterSuggestions \/ LimitSuggestions

SpecFilter == InitFilter /\ [][NextFilter]_vars

\* A server that writes a long body of equal units, with or without a last
\* done unit, to a consumer that may lag behind.
LongBody ==
    [lines |-> MaxLongLines,
     units |-> {[content |-> <<"a">>, done |-> FALSE],
                [content |-> <<"b">>, done |-> TRUE]}]

InitLong ==
    /\ StreamStart
    /\ cmd = "lint-suggestions"
    /\ server = LongBody
    /\ PureIdle
    /\ TimersIdle

\* The steps of a run in which every line of the body is a unit.
NextLong ==
    \/ Ping
    \/ Chat
    \/ executeWithRetry
    \/ streamChatStatus
    \/ scanUnit
    \/ scanEOF
    \/ streamChatSend
    \/ closeErrChan
    \/ closeRespChan
    \/ recvUnit
    \/ recvRespClosed
    \/ recvErr
    \/ Cancel
    \/ streamChatCtxDone
    \/ scanCtxError
    \/ recvCtxDone

SpecLong == InitLong /\ [][NextLong]_vars

\* The steps of the producer goroutine in such a run.
ProducerLong ==
    \/ executeWithRetry
    \/ streamChatStatus
    \/ scanUnit
    \/ scanEOF
    \/ streamChatSend
    \/ closeErrChan
    \/ closeRespChan
    \/ streamChatCtxDone
    \/ scanCtxError

\* The same runs when a goroutine that can take a step is scheduled in the
\* end, and the body, which is finite, is read to its end or fails.
SpecLongFair == SpecLong /\ WF_vars(ProducerLong)

(* ------------------------- the time limits ----------------------------- *)

\* The limits an exchange is under, in seconds since its httpClient.Do began.
\* Ping and the chat request both go through c.httpClient, whose Timeout runs
\* until the response body has been read to its end; the chat request is also
\* under reqCtx (context.WithTimeout(ctx, c.timeout)); the context of the
\* commands has no deadline of its own.
LimitsOf(exchange) ==
    IF exchange = "chat"
    THEN {[by |-> "client", after |-> ClientTimeout],
          [by |-> "reqCtx", after |-> RequestTimeout]}
    ELSE {[by |-> "client", after |-> ClientTimeout]}

\* The limits that have run out.
Expired == {l \in LimitsOf(timed) : elapsed * TickSeconds >= l.after}

InitTimed ==
    /\ StreamAtRest
    /\ PureIdle
    /\ timed \in {"ping", "chat"}
    /\ elapsed = 0
    /\ serverTicks \in 0..MaxTicks
    /\ outcome = "running"

\* Time passes while the server has not yet answered in full.
Tick ==
    /\ outcome = "running"
    /\ Expired = {}
    /\ elapsed < serverTicks
    /\ elapsed' = elapsed + 1
    /\ UNCHANGED <<timed, serverTicks, outcome, server>>
    /\ UNCHANGED <<consumerVars, producerVars, chanVars, pureVars>>
    /\ UNCHANGED <<cancelled, cancelPos, pings, chatCalls>>

\* The last byte of the response is read before any limit has run out.
ExchangeEnds ==
    /\ outcome = "running"
    /\ Expired = {}
    /\ elapsed = serverTicks
    /\ outcome' = "finished"
    /\ UNCHANGED <<timed, elapsed, serverTicks, server>>
    /\ UNCHANGED <<consumerVars, producerVars, chanVars, pureVars>>
    /\ UNCHANGED <<cancelled, cancelPos, pings, chatCalls>>

\* A limit runs out: the request, or the read of the body, fails.
LimitExpires ==
    /\ outcome = "running"
    /\ \E l \in Expired : outcome' = l.by
    /\ UNCHANGED <<timed, elapsed, serverTicks, server>>
    /\ UNCHANGED <<consumerVars, producerVars, chanVars, pureVars>>
    /\ UNCHANGED <<cancelled, cancelPos, pings, chatCalls>>

NextTimed == Tick \/ ExchangeEnds \/ LimitExpires

SpecTimed == InitTimed /\ [][NextTimed]_vars

(* ------------------------- notions the claims use ---------------------- *)

\* The command went through its for/select loop and left it.
LeftLoop == cpc = "done" /\ result.kind \notin {"early", "pingErr"}

\* The producer goroutine has run its last step.
ProducerEnded == ppc \in {"exited", "crashed"}

\* s is a prefix of t.
IsPrefix(s, t) == Len(s) <= Len(t) /\ SubSeq(t, 1, Len(s)) = s

\* The units of us up to and including the first one with done = true.
RECURSIVE UpToFirstDone(_)
UpToFirstDone(us) ==
    IF us = <<>> THEN <<>>
    ELSE IF us[1].done THEN <<us[1]>>
    ELSE <<us[1]>> \o UpToFirstDone(Tail(us))

\* Every attempt of the initial request was made and none was accepted:
\* each ended in a connection error or a 5xx status.
RetryExhausted ==
    /\ Len(attempts) = maxRetries
    /\ \A k \in 1..Len(attempts) : attempts[k].err \/ attempts[k].status >= 500

\* The stream failed: the request never got an acceptable response, or the
\* response was refused, or reading or decoding the body failed.
StreamFailed ==
    RetryExhausted \/ bodyEnd \in {"status", "decode", "read", "ctx"}

\* The response the server gave to the last attempt, when it gave one.
HasResponse == attempts # <<>> /\ ~attempts[Len(attempts)].err

LastResponse == attempts[Len(attempts)]

Is2xx(st) == st >= 200 /\ st < 300

(* ------------------------------- claims -------------------------------- *)

\* C1: when the server sent units ending with done = true and nothing failed,
\* the text the consumer loop holds when it leaves the loop is the
\* concatenation of the contents of all the units, none skipped or reordered.
C1_AggregatedTextIsConcatenation ==
    (LeftLoop /\ bodyEnd = "done" /\ ~panicked)
        => /\ responseBuilder = Concat(decoded)
           /\ received = decoded

\* C2: when streamChat returned an error, which Chat put on errChan, the
\* consumer loop ends with that error; it never ends as a normal completion.
C2_ErrorReachesCaller ==
    (LeftLoop /\ retErr # NoErr)
        => /\ result.kind = "streamErr"
           /\ result.err = retErr

\* C3: a body that ends after some units were delivered, none of them with
\* done = true, ends in an error on the error path, and the command does not
\* report success.
C3_InterruptionIsAnError ==
    (bodyEnd \in {"eof", "read"} /\ sent # <<>>)
        => /\ retErr # NoErr
           /\ errSent # <<>>
           /\ (LeftLoop => result.kind # "success")

\* C4: when every attempt failed, executeWithRetry returns a non-nil error and
\* the chat call signals exactly one error, delivers no unit and closes both
\* channels.
C4_ExhaustedRetriesSignalOneError ==
    /\ (RetryExhausted /\ ppc # "attempt") => execErr # NoErr
    /\ (RetryExhausted /\ ProducerEnded)
          => /\ Len(errSent) = 1
             /\ sent = <<>>
             /\ errClosed
             /\ respClosed

\* C5: the producer ends either with respChan closed and no error ever sent,
\* or with exactly one error sent and no unit sent after it; a stream that
\* fails before any unit is delivered sends exactly one error and no unit.
C5_ExactlyOneTerminalEvent ==
    /\ Len(errSent) <= 1
    /\ sentAfterErr = 0
    /\ ProducerEnded => respClosed
    /\ (ProducerEnded /\ StreamFailed /\ sent = <<>>) => Len(errSent) = 1

\* C6: what the consumer received is always a prefix of what was decoded, and
\* without cancellation every decoded unit up to and including the first
\* done = true unit has been received once producer and consumer are through.
C6_InOrderNoDrop ==
    /\ IsPrefix(received, decoded)
    /\ (LeftLoop /\ ProducerEnded /\ ~cancelled /\ ~panicked)
          => received = UpToFirstDone(decoded)

\* C7: once the context is cancelled the producer puts no further unit on
\* respChan.
C7_NoSendAfterCancel == sentAfterCancel = 0

\* C8: when cancellation fires while the consumer loop is running, the loop
\* never ends as a success.
C8_CancelIsFailure ==
    (cancelPos = "loop" /\ LeftLoop) => result.kind # "success"

\* C9: a command calls Chat only after a Ping that returned no error; when
\* Ping returns an error the command returns it, Chat is never called, no
\* producer starts and no request goes to the chat endpoint.
C9_PingFailFast ==
    /\ (chatCalls > 0 \/ ppc # "idle" \/ attempts # <<>>)
          => /\ Len(pings) = 1
             /\ ~pings[1].err
             /\ pings[1].status = StatusOK
    /\ (pings # <<>> /\ (pings[1].err \/ pings[1].status # StatusOK))
          => /\ cpc = "done"
             /\ result.kind = "pingErr"
             /\ chatCalls = 0
             /\ ppc = "idle"
             /\ attempts = <<>>

\* A command whose Ping failed has returned the failure without calling Chat.
C9_Witness ==
    /\ cpc = "done"
    /\ result.kind = "pingErr"
    /\ pings # <<>>
    /\ chatCalls = 0

\* C10: a non-2xx status of the initial response gives a terminal error that
\* carries the status code and the body text, and no unit; a 2xx status gives
\* no status error and the body is decoded as a stream.
C10_StatusDecidesOutcome ==
    (HasResponse /\ ProducerEnded)
        => IF Is2xx(LastResponse.status)
           THEN /\ \A k \in 1..Len(errSent) : errSent[k].kind # "status"
                /\ bodyEnd \in {"done", "eof", "read", "decode", "ctx"}
           ELSE /\ errSent = <<StatusErr(LastResponse.status, LastResponse.text)>>
                /\ sent = <<>>

\* The positions of wire that hold lines of kind k.
LinesOfKind(k) == {n \in 1..Len(wire) : wire[n] = k}

\* C11 as stated: Ping sends one GET, never retries, and returns no error
\* exactly when the server answers with a 2xx status.
C11_PingOkOn2xx ==
    /\ Len(pings) <= 1
    /\ pings # <<>>
          => (result.kind # "pingErr"
                 <=> (~pings[1].err /\ Is2xx(pings[1].status)))

\* C11 amended: Ping sends one GET, never retries, and returns no error
\* exactly when the server answers with status 200; an unreachable server or
\* any other status, another 2xx included, makes it return an error.
C11_PingOkOn200 ==
    /\ Len(pings) <= 1
    /\ (cpc # "start" /\ result.kind # "early") => Len(pings) = 1
    /\ pings # <<>>
          => (result.kind # "pingErr"
                 <=> (~pings[1].err /\ pings[1].status = StatusOK))

\* Ping got a 2xx answer other than 200 and returned an error.
C11_Witness ==
    /\ pings # <<>>
    /\ ~pings[1].err
    /\ Is2xx(pings[1].status)
    /\ pings[1].status # StatusOK
    /\ result.kind = "pingErr"

\* C12: a blank line gives neither a unit nor an error; the first malformed
\* line ends streamChat with the decode error, no line is read after it, and
\* every unit decoded before it has been put on respChan, in order.
C12_MalformedLineIsTerminal ==
    /\ Cardinality(LinesOfKind("unit")) = Len(decoded)
    /\ LinesOfKind("bad") # {}
          => /\ LinesOfKind("bad") = {Len(wire)}
             /\ bodyEnd = "decode"
             /\ retErr = DecodeErr
             /\ errSent = <<DecodeErr>>
             /\ sent = decoded
    /\ (bodyEnd = "decode" \/ DecodeErr \in {errSent[n] : n \in 1..Len(errSent)})
          => LinesOfKind("bad") # {}

\* A body with a blank line, a unit and then a malformed line has been read
\* and the producer is through.
C12_Witness ==
    /\ ProducerEnded
    /\ bodyEnd = "decode"
    /\ LinesOfKind("blank") # {}
    /\ decoded # <<>>
    /\ sent = decoded

\* C13: the command reports the empty-output failure exactly when the producer
\* signalled no error and the accumulated text is empty after trimming; a run
\* in which the producer signalled an error is never reported as empty-output.
C13_EmptyOutputExact ==
    LeftLoop
        => /\ result.kind = "empty"
                 <=> (errSent = <<>> /\ TrimSpace(responseBuilder) = <<>>)
           /\ errSent # <<>> => result.kind # "empty"

\* The lines of the text handed to parseSuggestions, and those among them
\* that are not blank and that have the form "N. [label] title".
ResponseLines == Split(response)
LineAt(n) == TrimSpace(ResponseLines[n])
NonBlank == {n \in DOMAIN ResponseLines : LineAt(n) # <<>>}
Structured == {n \in NonBlank : MatchPrimary(LineAt(n)) # <<>>}

\* The j-th smallest member of a set of line numbers.
Nth(S, j) == CHOOSE k \in S : Cardinality({m \in S : m < k}) = j - 1

\* Position of the first occurrence of ch in s.
FirstIndex(s, ch) ==
    CHOOSE n \in 1..Len(s) : s[n] = ch /\ \A m \in 1..(n - 1) : s[m] # ch

\* The bracket label of a structured line and what follows its brackets.
LabelOf(line) ==
    SubSeq(line, FirstIndex(line, "[") + 1, FirstIndex(line, "]") - 1)
RestOf(line) == Drop(line, FirstIndex(line, "]"))

\* The lines of a set, trimmed, in line order, joined by single spaces.
RECURSIVE JoinSpaced(_)
JoinSpaced(S) ==
    IF S = {} THEN <<>>
    ELSE LET k == Nth(S, 1)
         IN  IF S = {k} THEN LineAt(k)
             ELSE LineAt(k) \o <<" ">> \o JoinSpaced(S \ {k})

\* A line contains the bracketed token in some letter case.
HasTag(line, sev) ==
    \E a \in 1..Len(line) : \E b \in a..Len(line) :
        ToUpper(SubSeq(line, a, b)) = Bracketed(sev)

\* The non-blank lines from which something is left when the ordinal prefix
\* and the upper-case severity tokens are taken away.
Emitted == {n \in NonBlank : fallbackTitle(LineAt(n)) # <<>>}

IsText(t) == DOMAIN t = 1..Len(t) /\ \A n \in 1..Len(t) : t[n] \in STRING

IsSuggestion(s) ==
    /\ DOMAIN s = {"Severity", "Title", "Description", "Number"}
    /\ IsText(s.Severity)
    /\ IsText(s.Title)
    /\ IsText(s.Description)
    /\ s.Number \in Nat

RECURSIVE IsSubsequence(_, _)
IsSubsequence(a, b) ==
    IF a = <<>> THEN TRUE
    ELSE IF b = <<>> THEN FALSE
    ELSE IF a[1] = b[1] THEN IsSubsequence(Tail(a), Tail(b))
    ELSE IsSubsequence(a, Tail(b))

\* C14 as stated: a text with a non-blank line and no structured line gives
\* at least one Suggestion.
C14_FallbackGivesSuggestion ==
    (pstage = "parsed" /\ NonBlank # {} /\ Structured = {})
        => Len(suggestions) >= 1

\* C14 amended: a text with no structured line gives at least one Suggestion
\* exactly when some non-blank line is still non-empty after its ordinal
\* prefix and its upper-case [HIGH], [MEDIUM], [LOW] tokens are removed.
C14_FallbackGivesSuggestionForContent ==
    (pstage = "parsed" /\ Structured = {})
        => (Len(suggestions) >= 1 <=> Emitted # {})

\* The fallback loop gave a Suggestion for a text that also has a non-blank
\* line of which nothing is left.
C14_Witness ==
    /\ pstage = "parsed"
    /\ Structured = {}
    /\ Emitted # {}
    /\ NonBlank \ Emitted # {}
    /\ Len(suggestions) >= 1

\* With a structured line: one Suggestion per structured line, in line order,
\* with its upper-cased label, trimmed or not, as severity, the trimmed rest as
\* title, and the lines up to the next structured line, joined by spaces, as
\* description.
StructuredResultIs(labelTrimmed) ==
    /\ Len(suggestions) = Cardinality(Structured)
    /\ \A j \in 1..Len(suggestions) :
          LET k == Nth(Structured, j)
              next == IF j < Len(suggestions) THEN Nth(Structured, j + 1)
                      ELSE Len(ResponseLines) + 1
          IN  /\ suggestions[j].Severity
                    = IF labelTrimmed THEN TrimSpace(ToUpper(LabelOf(LineAt(k))))
                      ELSE ToUpper(LabelOf(LineAt(k)))
              /\ suggestions[j].Title = TrimSpace(RestOf(LineAt(k)))
              /\ suggestions[j].Description
                    = JoinSpaced({n \in NonBlank : k < n /\ n < next})

\* C15 as stated: the severity is the upper-cased bracket label.
C15_StructuredLines ==
    (pstage = "parsed" /\ Structured # {})
        => StructuredResultIs(FALSE)

\* C15 amended: the severity is the upper-cased bracket label with the white
\* space around it removed; the rest is as stated: one Suggestion per
\* structured line, in line order, the trimmed rest of the line as title, the
\* space-joined lines up to the next structured line as description, and
\* nothing from the lines before the first structured line.
C15_StructuredLinesTrimmedLabel ==
    (pstage = "parsed" /\ Structured # {})
        => StructuredResultIs(TRUE)

\* Two structured lines, one of them with white space inside its brackets,
\* and a description.
C15_Witness ==
    /\ pstage = "parsed"
    /\ Cardinality(Structured) >= 2
    /\ \E n \in Structured : TrimSpace(LabelOf(LineAt(n))) # LabelOf(LineAt(n))
    /\ \E j \in 1..Len(suggestions) : suggestions[j].Description # <<>>

\* C16: without a structured line, the Suggestions are those of the emitted
\* lines, in line order, and each has severity HIGH if its line has [HIGH] in
\* some letter case, else LOW if it has [LOW] in some letter case, else MEDIUM.
C16_FallbackSeverity ==
    (pstage = "parsed" /\ Structured = {})
        => /\ Len(suggestions) = Cardinality(Emitted)
           /\ \A j \in 1..Len(suggestions) :
                 LET line == LineAt(Nth(Emitted, j))
                 IN  suggestions[j].Severity
                        = IF HasTag(line, HIGH) THEN HIGH
                          ELSE IF HasTag(line, LOW) THEN LOW
                          ELSE MEDIUM

\* The fallback loop emitted a line with both tags, a line with [LOW] only and
\* a line with neither.
C16_Witness ==
    /\ pstage = "parsed"
    /\ Structured = {}
    /\ \E n \in Emitted : HasTag(LineAt(n), HIGH) /\ HasTag(LineAt(n), LOW)
    /\ \E n \in Emitted : ~HasTag(LineAt(n), HIGH) /\ HasTag(LineAt(n), LOW)
    /\ \E n \in Emitted : ~HasTag(LineAt(n), HIGH) /\ ~HasTag(LineAt(n), LOW)
    /\ Len(suggestions) = Cardinality(Emitted)

\* C17: every Suggestion parseSuggestions returns has a non-empty severity.
C17_SeverityNeverEmpty ==
    pstage = "parsed"
        => \A j \in 1..Len(suggestions) : suggestions[j].Severity # <<>>

\* C18: parseSuggestions returns a sequence of Suggestions for every text, and
\* the empty sequence for a text that has only blank lines.
C18_TotalAndEmptyOnBlank ==
    pstage = "parsed"
        => /\ DOMAIN suggestions = 1..Len(suggestions)
           /\ \A j \in 1..Len(suggestions) : IsSuggestion(suggestions[j])
           /\ NonBlank = {} => suggestions = <<>>

\* A text of several blank lines, one of them of white space, was parsed.
C18_Witness ==
    /\ pstage = "parsed"
    /\ NonBlank = {}
    /\ Len(ResponseLines) >= 2
    /\ \E n \in DOMAIN ResponseLines : ResponseLines[n] # <<>>
    /\ suggestions = <<>>

\* C19: with the label "all" in any letter case the list is returned as it is.
C19_AllInAnyCaseIsIdentity ==
    (pstage = "filtered" /\ ToUpper(severityFilter) = ToUpper(All))
        => filtered = filterInput

\* The returned list is made of elements of the given list, in their order,
\* whose severity is the label up to letter case.
FilteredIsMatchingSubsequence ==
    /\ IsSubsequence(filtered, filterInput)
    /\ \A j \in 1..Len(filtered) :
          ToUpper(filtered[j].Severity) = ToUpper(severityFilter)

\* C20: for a label other than "all" the returned list is a subsequence of the
\* given list whose elements have the label as severity, up to letter case,
\* and the given list is never changed.
C20_FilterIsSubsequence ==
    /\ []((pstage = "filtered" /\ severityFilter # All)
             => FilteredIsMatchingSubsequence)
    /\ [][filterInput' = filterInput]_vars

\* A list of three was filtered by "high" down to two different elements.
C20_Witness ==
    /\ pstage = "filtered"
    /\ severityFilter = <<"h", "i", "g", "h">>
    /\ Len(filterInput) = 3
    /\ Len(filtered) = 2
    /\ filtered[1] # filtered[2]

\* The elements of a sequence.
Elements(seq) == {seq[n] : n \in 1..Len(seq)}

C22_LimitKeepsFirstOrAll ==
    pstage \in {"limited", "panic"}
        => /\ pstage = "limited"
           /\ limited = IF maxSuggestions > 0 /\ maxSuggestions < Len(filtered)
                        THEN SubSeq(filtered, 1, maxSuggestions)
                        ELSE filtered

\* The attempts of the chat request that were not accepted.
FailedAttempts == {k \in 1..Len(attempts) : ~Accepted(attempts[k])}

Min(a, b) == IF a <= b THEN a ELSE b

\* C23: the chat request is sent at most 3 times; every attempt but the last
\* ended in a connection error or a 5xx status; a response with a status below
\* 500 ends the attempts and is the response streamChat works on; and no
\* request is sent once executeWithRetry has returned, whatever happens to the
\* stream afterwards.
C23_RetryOnlyTheInitialRequest ==
    /\ [](/\ Len(attempts) <= maxRetries
          /\ \A k \in 1..Len(attempts) :
                IF attempts[k].err \/ attempts[k].status >= 500
                THEN k < Len(attempts) \/ ppc # "attempt" \/ i = k
                ELSE /\ k = Len(attempts)
                     /\ ppc # "attempt"
                     /\ resp.status = attempts[k].status)
    /\ [][ppc # "attempt" => attempts' = attempts]_vars

\* The second attempt was accepted after a failed first one, lines were read
\* and the read then failed: no third request was sent.
C23_Witness ==
    /\ Len(attempts) = 2
    /\ attempts[1].err \/ attempts[1].status >= 500
    /\ attempts[2].status = StatusOK
    /\ decoded # <<>>
    /\ bodyEnd = "read"
    /\ ProducerEnded

DoneSent == {k \in 1..Len(sent) : sent[k].done}

\* After a done unit was put on respChan nothing more is decoded or sent, and
\* streamChat returns nil: no error is signalled and the channels get closed.
ProducerStopsAtDone ==
    DoneSent # {}
        => /\ DoneSent = {Len(sent)}
           /\ decoded = sent
           /\ bodyEnd = "done"
           /\ retErr = NoErr
           /\ errSent = <<>>
           /\ ~panicked
           /\ ProducerEnded => respClosed /\ errClosed

\* C25: after a done unit was delivered no further unit is decoded or
\* delivered, the stream ends without an error and with the unit queue closed,
\* and the last unit the consumer loop received is the done unit.
C25_DoneUnitIsLast ==
    /\ ProducerStopsAtDone
    /\ (DoneSent # {} /\ LeftLoop)
          => /\ received # <<>>
             /\ received[Len(received)].done
             /\ result.kind # "streamErr"

\* C26: without a structured line, no title holds a severity token in any
\* letter case, the token that gave the severity included, and every
\* description is empty.
C26_FallbackTitleHasNoToken ==
    (pstage = "parsed" /\ Structured = {})
        => \A j \in 1..Len(suggestions) :
              /\ \A sev \in {HIGH, MEDIUM, LOW} :
                    ~HasTag(suggestions[j].Title, sev)
              /\ suggestions[j].Description = <<>>

\* C27: every Suggestion has a number that is at least 1.
C27_NumberIsPositive ==
    pstage = "parsed"
        => \A j \in 1..Len(suggestions) : suggestions[j].Number >= 1

\* C28: a chat exchange is cut by the multi-minute limit only, not before that
\* limit has passed, and Ping is the only exchange the short limit cuts.
C28_ChatUnderLongLimitOnly ==
    /\ (timed = "chat" /\ outcome \in {"client", "reqCtx"})
          => /\ outcome = "reqCtx"
             /\ elapsed * TickSeconds >= RequestTimeout
    /\ outcome = "client" => timed = "ping"
    /\ (timed = "chat" /\ outcome = "finished")
          => serverTicks * TickSeconds < RequestTimeout

\* The producer is at its select with a unit and respChan is full.
ProducerWaits == ppc = "select" /\ Len(respChan) = RespChanCap

\* C29: respChan never holds more than 10 units and errChan never more than one
\* value; the units sent and not yet received are the ones in respChan, in
\* order; and while respChan is full the producer stays at its select with
\* its unit, sending nothing, until the consumer takes a unit or the context
\* is cancelled.
C29_BoundedQueuesNoDrop ==
    /\ [](/\ Len(respChan) <= RespChanCap
          /\ Len(errChan) <= 1
          /\ sent = received \o respChan
          /\ ppc = "select" => decoded = Append(sent, chatResp))
    /\ [][ProducerWaits
             => /\ sent' = sent
                /\ respChan' \in {respChan, Tail(respChan)}
                /\ \/ ppc' = "select" /\ chatResp' = chatResp
                   \/ cancelled /\ bodyEnd' = "ctx"]_vars

\* respChan is full, the consumer has taken a unit before, and the producer
\* waits with the next unit; nothing is cancelled.
C29_Witness ==
    /\ ProducerWaits
    /\ ~cancelled
    /\ received # <<>>
    /\ Len(decoded) = Len(received) + RespChanCap + 1

\* C30: once the consumer loop has been left, the producer goroutine comes to
\* its end with respChan and errChan closed.
C30_ProducerTerminates ==
    LeftLoop ~> (ProducerEnded /\ respClosed /\ errClosed)

\* The consumer loop was left on cancellation while the producer waits at its
\* select with respChan full.
C30_Witness ==
    /\ cpc = "done"
    /\ result.kind = "ctx"
    /\ ProducerWaits

====
